---------------------------- MODULE Spec2Model ----------------------------
(***************************************************************************)
(* Model of SystemData (src/pulse_system_info_speed.py): the sampler that  *)
(* turns cumulative network byte counters into rates and keeps four        *)
(* rolling histories of MAX_HISTORY entries.                               *)
(*                                                                         *)
(* Numbers.  Clock values and byte counters are integers.  A rate is the   *)
(* true quotient delta / elapsed of the code, kept as a fraction in lowest *)
(* terms <<numerator, denominator>> with a positive denominator, so that   *)
(* 2000 / 2 and 1000 / 1 are the same value and 1000 / 3 is not an         *)
(* integer.  The 0.0 the histories are pre-filled with is Zero.            *)
(***************************************************************************)
EXTENDS Integers, Sequences, FiniteSets, TLC

\* ------------------------------------------------------------ constants
MAX_HISTORY == 60

\* ------------------------------------------------------------ bounds
\* calls to sample() explored with arbitrary readings
MaxCalls == 2
\* largest clock value the OS reports in those calls
MaxTime == 2
\* calls made after the histories have been filled once, in the long run
MaxExtra == 2

\* ------------------------------------------------------------ inputs
\* what psutil.net_io_counters() can report
NetReadings ==
    { [bytes_sent |-> 0,    bytes_recv |-> 0],
      [bytes_sent |-> 1000, bytes_recv |-> 512],
      [bytes_sent |-> 2048, bytes_recv |-> 1024],
      [bytes_sent |-> 3000, bytes_recv |-> 2048] }

\* what psutil.cpu_percent() and psutil.virtual_memory().percent can report
\* together in one call: a source that stays within 0 .. 100
PercentReadings ==
    { [cpu |-> 25, ram |-> 40],
      [cpu |-> 100, ram |-> 0] }

\* what time.time() can report
Times == 0 .. MaxTime

\* the OS reads of sample(), in the order the code makes them
OsReads == <<"cpu_percent", "virtual_memory", "net_io_counters">>

\* ------------------------------------------------------------ numbers
Abs(n) == IF n < 0 THEN -n ELSE n

RECURSIVE GCD(_, _)
GCD(a, b) == IF b = 0 THEN a ELSE GCD(b, a % b)

\* n / d for d > 0, in lowest terms
Frac(n, d) == LET g == GCD(Abs(n), d) IN <<n \div g, d \div g>>

Zero == <<0, 1>>

\* a percentage reported by the OS, as the float the code stores
Float(p) == <<p, 1>>

NonNeg(q) == q[1] >= 0

\* ------------------------------------------------------------ state
VARIABLES
    last_net,        \* self.last_net
    last_time,       \* self.last_time
    cpu_hist,        \* self.cpu_hist
    ram_hist,        \* self.ram_hist
    net_sent_hist,   \* self.net_sent_hist
    net_recv_hist,   \* self.net_recv_hist
    \* observations of the calls, not state of the program
    prev,            \* the snapshot the last returned call started from
    reading,         \* what the OS reported to the last returned call (or to __init__)
    returned,        \* the dicts returned by sample(), in call order
    raised           \* the OS read that failed in the last call, "none" if it returned

vars == <<last_net, last_time, cpu_hist, ram_hist, net_sent_hist, net_recv_hist,
          prev, reading, returned, raised>>

hists == <<cpu_hist, ram_hist, net_sent_hist, net_recv_hist>>

\* ------------------------------------------------------------ helpers
\* deque(maxlen=MAX_HISTORY).append(x): at capacity the leftmost entry goes
DequeAppendNoEvict(h, x) == Append(h, x)
DequeAppendWrongEnd(h, x) ==
    IF Len(h) >= MAX_HISTORY THEN <<x>> \o SubSeq(h, 1, Len(h) - 1) ELSE Append(h, x)
DequeAppend(h, x) ==
    IF Len(h) >= MAX_HISTORY THEN Append(Tail(h), x) ELSE Append(h, x)

\* elapsed = now - self.last_time if now - self.last_time > 0 else 1.0
ElapsedAlwaysOne(now, last) == 1
Elapsed(now, last) == IF now - last > 0 THEN now - last ELSE 1

\* (net.bytes_x - self.last_net.bytes_x) / elapsed
Rate(cur, last, elapsed) == Frac(cur - last, elapsed)

\* ------------------------------------------------------------ __init__
InitShortFill ==
    /\ last_net \in NetReadings
    /\ last_time \in Times
    /\ cpu_hist = [i \in 1 .. MAX_HISTORY - 1 |-> Zero]
    /\ ram_hist = [i \in 1 .. MAX_HISTORY - 1 |-> Zero]
    /\ net_sent_hist = [i \in 1 .. MAX_HISTORY - 1 |-> Zero]
    /\ net_recv_hist = [i \in 1 .. MAX_HISTORY - 1 |-> Zero]
    /\ prev = [net |-> last_net, time |-> last_time]
    /\ reading = [now |-> last_time, cpu |-> 0, ram |-> 0, net |-> last_net]
    /\ returned = <<>>
    /\ raised = "none"
Init ==
    /\ last_net \in NetReadings
    /\ last_time \in Times
    /\ cpu_hist = [i \in 1 .. MAX_HISTORY |-> Zero]
    /\ ram_hist = [i \in 1 .. MAX_HISTORY |-> Zero]
    /\ net_sent_hist = [i \in 1 .. MAX_HISTORY |-> Zero]
    /\ net_recv_hist = [i \in 1 .. MAX_HISTORY |-> Zero]
    /\ prev = [net |-> last_net, time |-> last_time]
    /\ reading = [now |-> last_time, cpu |-> 0, ram |-> 0, net |-> last_net]
    /\ returned = <<>>
    /\ raised = "none"

\* ------------------------------------------------------------ sample()
\* a call in which every OS read succeeds (lines 46-59)
sample_ram_gets_cpu(now, cpu, ram, net) ==
    LET elapsed   == Elapsed(now, last_time)
        sent_rate == Rate(net.bytes_sent, last_net.bytes_sent, elapsed)
        recv_rate == Rate(net.bytes_recv, last_net.bytes_recv, elapsed)
    IN  /\ last_net' = net
        /\ last_time' = now
        /\ cpu_hist' = DequeAppend(cpu_hist, Float(cpu))
        /\ ram_hist' = DequeAppend(ram_hist, Float(cpu))
        /\ net_sent_hist' = DequeAppend(net_sent_hist, sent_rate)
        /\ net_recv_hist' = DequeAppend(net_recv_hist, recv_rate)
        /\ returned' = Append(returned,
                              [cpu |-> Float(cpu), ram |-> Float(ram),
                               net_sent |-> sent_rate, net_recv |-> recv_rate])
        /\ prev' = [net |-> last_net, time |-> last_time]
        /\ reading' = [now |-> now, cpu |-> cpu, ram |-> ram, net |-> net]
        /\ raised' = "none"
sample_cpu_gets_rate(now, cpu, ram, net) ==
    LET elapsed   == Elapsed(now, last_time)
        sent_rate == Rate(net.bytes_sent, last_net.bytes_sent, elapsed)
        recv_rate == Rate(net.bytes_recv, last_net.bytes_recv, elapsed)
    IN  /\ last_net' = net
        /\ last_time' = now
        /\ cpu_hist' = DequeAppend(cpu_hist, sent_rate)
        /\ ram_hist' = DequeAppend(ram_hist, Float(ram))
        /\ net_sent_hist' = DequeAppend(net_sent_hist, sent_rate)
        /\ net_recv_hist' = DequeAppend(net_recv_hist, recv_rate)
        /\ returned' = Append(returned,
                              [cpu |-> Float(cpu), ram |-> Float(ram),
                               net_sent |-> sent_rate, net_recv |-> recv_rate])
        /\ prev' = [net |-> last_net, time |-> last_time]
        /\ reading' = [now |-> now, cpu |-> cpu, ram |-> ram, net |-> net]
        /\ raised' = "none"
sample_keeps_snapshot_on_clamp(now, cpu, ram, net) ==
    LET elapsed   == Elapsed(now, last_time)
        sent_rate == Rate(net.bytes_sent, last_net.bytes_sent, elapsed)
        recv_rate == Rate(net.bytes_recv, last_net.bytes_recv, elapsed)
    IN  /\ last_net' = IF now - last_time > 0 THEN net ELSE last_net
        /\ last_time' = IF now - last_time > 0 THEN now ELSE last_time
        /\ cpu_hist' = DequeAppend(cpu_hist, Float(cpu))
        /\ ram_hist' = DequeAppend(ram_hist, Float(ram))
        /\ net_sent_hist' = DequeAppend(net_sent_hist, sent_rate)
        /\ net_recv_hist' = DequeAppend(net_recv_hist, recv_rate)
        /\ returned' = Append(returned,
                              [cpu |-> Float(cpu), ram |-> Float(ram),
                               net_sent |-> sent_rate, net_recv |-> recv_rate])
        /\ prev' = [net |-> last_net, time |-> last_time]
        /\ reading' = [now |-> now, cpu |-> cpu, ram |-> ram, net |-> net]
        /\ raised' = "none"
sample(now, cpu, ram, net) ==
    LET elapsed   == Elapsed(now, last_time)
        sent_rate == Rate(net.bytes_sent, last_net.bytes_sent, elapsed)
        recv_rate == Rate(net.bytes_recv, last_net.bytes_recv, elapsed)
    IN  /\ last_net' = net
        /\ last_time' = now
        /\ cpu_hist' = DequeAppend(cpu_hist, Float(cpu))
        /\ ram_hist' = DequeAppend(ram_hist, Float(ram))
        /\ net_sent_hist' = DequeAppend(net_sent_hist, sent_rate)
        /\ net_recv_hist' = DequeAppend(net_recv_hist, recv_rate)
        /\ returned' = Append(returned,
                              [cpu |-> Float(cpu), ram |-> Float(ram),
                               net_sent |-> sent_rate, net_recv |-> recv_rate])
        /\ prev' = [net |-> last_net, time |-> last_time]
        /\ reading' = [now |-> now, cpu |-> cpu, ram |-> ram, net |-> net]
        /\ raised' = "none"

\* a call in which the OS read `which` raises.  Lines 46-49 assign locals only
\* and nothing catches the exception, so it reaches the caller with the object
\* as it was.
sample_raises_after_update(now, which) ==
    /\ raised' = which
    /\ last_time' = now
    /\ UNCHANGED <<last_net, cpu_hist, ram_hist, net_sent_hist,
                   net_recv_hist, prev, reading, returned>>
sample_raises(now, which) ==
    /\ raised' = which
    /\ UNCHANGED <<last_net, last_time, cpu_hist, ram_hist, net_sent_hist,
                   net_recv_hist, prev, reading, returned>>

\* ------------------------------------------------------------ runs
\* number of calls that returned
Calls == Len(returned)

\* the dict returned by the last call that returned
Ret == returned[Calls]

\* Short runs: every call reads anything the OS can report, or fails.
Returns ==
    /\ Calls < MaxCalls
    /\ \E now \in Times, p \in PercentReadings, net \in NetReadings :
          sample(now, p.cpu, p.ram, net)

Raises ==
    /\ Calls < MaxCalls
    /\ \E now \in Times, i \in 1 .. Len(OsReads) : sample_raises(now, OsReads[i])

Next == Returns \/ Raises

Spec == Init /\ [][Next]_vars

\* Long runs, past the capacity of the histories.  The first call reads
\* anything; after it the machine is under a steady load in which every call
\* reads a different CPU percentage, memory percentage and network rate, the
\* clock advancing one unit per call; once the histories have been filled the
\* percentages are again arbitrary.
Steady(k) ==
    [now |-> k, cpu |-> k % 101, ram |-> (100 - k) % 101,
     net |-> [bytes_sent |-> 512 * k * (k + 1), bytes_recv |-> 100 * k * k]]

LongReadings(k) ==
    IF k = 1
    THEN { [now |-> t, cpu |-> p.cpu, ram |-> p.ram, net |-> n] :
              t \in Times, p \in PercentReadings, n \in NetReadings }
    ELSE IF k > MAX_HISTORY
    THEN { Steady(k) } \cup
         { [Steady(k) EXCEPT !.cpu = p.cpu, !.ram = p.ram] : p \in PercentReadings }
    ELSE { Steady(k) }

NextLong ==
    /\ Calls < MAX_HISTORY + MaxExtra
    /\ \E r \in LongReadings(Calls + 1) : sample(r.now, r.cpu, r.ram, r.net)

SpecLong == Init /\ [][NextLong]_vars

\* ------------------------------------------------------------ properties
AllHists == {cpu_hist, ram_hist, net_sent_hist, net_recv_hist}

\* q = n / d, stated by cross-multiplication
IsQuotient(q, n, d) == q[2] > 0 /\ q[1] * d = n * q[2]

IsInteger(q, n) == q = <<n, 1>>

InPercentRange(q) == q[2] > 0 /\ 0 <= q[1] /\ q[1] <= 100 * q[2]

\* the byte deltas and the clock difference the last returned call saw
SentDelta == reading.net.bytes_sent - prev.net.bytes_sent
RecvDelta == reading.net.bytes_recv - prev.net.bytes_recv
ClockDelta == reading.now - prev.time

\* C1: every rate returned by sample() and every entry of net_sent_hist and
\* net_recv_hist is >= 0, also when a cumulative counter is smaller than the
\* one in the last snapshot.
C1_RatesNonNegative ==
    /\ Calls > 0 => NonNeg(Ret.net_sent) /\ NonNeg(Ret.net_recv)
    /\ \A i \in 1 .. Len(net_sent_hist) : NonNeg(net_sent_hist[i])
    /\ \A i \in 1 .. Len(net_recv_hist) : NonNeg(net_recv_hist[i])

\* C2: in every reachable state each of the four histories has exactly
\* MAX_HISTORY (60) elements.
C2_HistoryLength == \A h \in AllHists : Len(h) = MAX_HISTORY

C2_Witness ==
    /\ Calls >= 2
    /\ \A h \in AllHists : Len(h) = MAX_HISTORY
    /\ cpu_hist[MAX_HISTORY - 1] # Zero
    /\ net_sent_hist[MAX_HISTORY] # Zero

\* C3: a call with now - last_time <= 0 returns rates that are non-negative
\* and equal to the byte deltas (elapsed taken as 1.0).
C3_ZeroElapsed ==
    (Calls > 0 /\ ClockDelta <= 0) =>
        /\ IsInteger(Ret.net_sent, SentDelta) /\ NonNeg(Ret.net_sent)
        /\ IsInteger(Ret.net_recv, RecvDelta) /\ NonNeg(Ret.net_recv)

\* C4: when no counter decreased and now - last_time > 0, the call returns
\* net_sent = (bytes_sent_now - bytes_sent_last) / (now - last_time) and the
\* same for net_recv; snapshot (sent 1000, t 0) then reading (sent 3000, t 2)
\* gives net_sent = 1000.
C4_RateIsDeltaOverElapsed ==
    /\ (Calls > 0 /\ SentDelta >= 0 /\ RecvDelta >= 0 /\ ClockDelta > 0) =>
          /\ IsQuotient(Ret.net_sent, SentDelta, ClockDelta)
          /\ IsQuotient(Ret.net_recv, RecvDelta, ClockDelta)
          /\ net_sent_hist[MAX_HISTORY] = Ret.net_sent
          /\ net_recv_hist[MAX_HISTORY] = Ret.net_recv
    /\ (Calls > 0 /\ prev.net.bytes_sent = 1000 /\ prev.time = 0
          /\ reading.net.bytes_sent = 3000 /\ reading.now = 2) =>
          IsInteger(Ret.net_sent, 1000)

C4_Witness ==
    /\ Calls > 0
    /\ prev.net.bytes_sent = 1000 /\ prev.time = 0
    /\ reading.net.bytes_sent = 3000 /\ reading.now = 2
    /\ IsInteger(Ret.net_sent, 1000)

\* C5: after n >= 60 calls each history holds exactly the values returned by
\* calls n-59 .. n, oldest first; after 61 calls the first element of cpu_hist
\* is the value of the 2nd call.
C5_EvictionOrder ==
    Calls >= MAX_HISTORY =>
        \A i \in 1 .. MAX_HISTORY :
            LET r == returned[Calls - MAX_HISTORY + i]
            IN  /\ Len(cpu_hist) >= i /\ cpu_hist[i] = r.cpu
                /\ Len(ram_hist) >= i /\ ram_hist[i] = r.ram
                /\ Len(net_sent_hist) >= i /\ net_sent_hist[i] = r.net_sent
                /\ Len(net_recv_hist) >= i /\ net_recv_hist[i] = r.net_recv

C5_Witness ==
    /\ Calls = MAX_HISTORY + 1
    /\ cpu_hist[1] = returned[2].cpu
    /\ returned[1].cpu # returned[2].cpu
    /\ \A i \in 1 .. MAX_HISTORY : cpu_hist[i] # returned[1].cpu

\* C6: after k calls, 1 <= k <= 60, the first 60-k elements of every history
\* are 0.0 and the last element is the field of the dict the latest call
\* returned; seeded at (sent 0, recv 0, t 0), one call reading cpu 25, ram 40,
\* (sent 2048, recv 1024) at t 1 returns {25, 40, 2048, 1024}.
C6_FillFromTheRight ==
    /\ (1 <= Calls /\ Calls <= MAX_HISTORY) =>
          /\ \A h \in AllHists :
                Len(h) = MAX_HISTORY /\ \A i \in 1 .. MAX_HISTORY - Calls : h[i] = Zero
          /\ cpu_hist[MAX_HISTORY] = Ret.cpu
          /\ ram_hist[MAX_HISTORY] = Ret.ram
          /\ net_sent_hist[MAX_HISTORY] = Ret.net_sent
          /\ net_recv_hist[MAX_HISTORY] = Ret.net_recv
    /\ (Calls = 1 /\ prev = [net |-> [bytes_sent |-> 0, bytes_recv |-> 0], time |-> 0]
          /\ reading = [now |-> 1, cpu |-> 25, ram |-> 40,
                        net |-> [bytes_sent |-> 2048, bytes_recv |-> 1024]]) =>
          /\ IsInteger(Ret.cpu, 25) /\ IsInteger(Ret.ram, 40)
          /\ IsInteger(Ret.net_sent, 2048) /\ IsInteger(Ret.net_recv, 1024)

C6_Witness ==
    /\ Calls = 1
    /\ prev = [net |-> [bytes_sent |-> 0, bytes_recv |-> 0], time |-> 0]
    /\ reading = [now |-> 1, cpu |-> 25, ram |-> 40,
                  net |-> [bytes_sent |-> 2048, bytes_recv |-> 1024]]
    /\ Ret = [cpu |-> <<25, 1>>, ram |-> <<40, 1>>,
              net_sent |-> <<2048, 1>>, net_recv |-> <<1024, 1>>]
    /\ \A h \in AllHists : \A i \in 1 .. MAX_HISTORY - 1 : h[i] = Zero
    /\ ram_hist[MAX_HISTORY] = <<40, 1>>

\* C7: before any call to sample() the four histories are 60 entries of 0.0
\* and (last_net, last_time) is what the OS reported at construction.
C7_AfterConstruction ==
    (Calls = 0 /\ raised = "none") =>
        /\ \A h \in AllHists :
              Len(h) = MAX_HISTORY /\ \A i \in 1 .. Len(h) : h[i] = Zero
        /\ last_net = reading.net /\ last_net \in NetReadings
        /\ last_time = reading.now /\ last_time \in Times

C7_Witness ==
    /\ Calls = 0 /\ raised = "none"
    /\ last_net = [bytes_sent |-> 2048, bytes_recv |-> 1024]
    /\ last_time = 1
    /\ Len(net_recv_hist) = MAX_HISTORY

\* C8: with an OS that reports percentages within 0 .. 100, the cpu and ram
\* of every returned dict are the reported ones and within 0 .. 100, and so is
\* every element of cpu_hist and ram_hist.
C8_PercentPassThrough ==
    /\ Calls > 0 =>
          /\ IsInteger(Ret.cpu, reading.cpu) /\ InPercentRange(Ret.cpu)
          /\ IsInteger(Ret.ram, reading.ram) /\ InPercentRange(Ret.ram)
    /\ \A i \in 1 .. Len(cpu_hist) : InPercentRange(cpu_hist[i])
    /\ \A i \in 1 .. Len(ram_hist) : InPercentRange(ram_hist[i])

C8_Witness ==
    /\ Calls >= 2
    /\ IsInteger(Ret.cpu, 100)
    /\ cpu_hist[MAX_HISTORY] = <<100, 1>>
    /\ cpu_hist[MAX_HISTORY - 1] = <<25, 1>>
    /\ ram_hist[MAX_HISTORY - 1] = <<40, 1>>

\* C9: every call that returns leaves (last_net, last_time) equal to that
\* call's reading, also when elapsed was clamped or a counter regressed, and
\* its rates are the deltas between its reading and the reading of the call
\* that returned just before it (or of construction) over the elapsed time.
C9_SnapshotFollowsEveryCall ==
    [][ Len(returned') = Len(returned) + 1 =>
          LET e == IF reading'.now - reading.now > 0
                   THEN reading'.now - reading.now ELSE 1
              r == returned'[Len(returned')]
          IN  /\ last_net' = reading'.net
              /\ last_time' = reading'.now
              /\ IsQuotient(r.net_sent,
                            reading'.net.bytes_sent - reading.net.bytes_sent, e)
              /\ IsQuotient(r.net_recv,
                            reading'.net.bytes_recv - reading.net.bytes_recv, e)
      ]_vars

C9_Witness ==
    /\ Calls >= 2
    /\ ClockDelta <= 0
    /\ SentDelta < 0
    /\ last_net = reading.net
    /\ last_time = reading.now

\* C10: a call in which an OS read fails leaves last_net, last_time and the
\* four histories exactly as they were.
C10_FailureLeavesState ==
    [][ raised' # "none" =>
          UNCHANGED <<last_net, last_time, cpu_hist, ram_hist,
                      net_sent_hist, net_recv_hist>> ]_vars

C10_Witness ==
    /\ raised = "net_io_counters"
    /\ Calls >= 1
    /\ last_net = reading.net
    /\ last_time = reading.now

=============================================================================
